---- MODULE Spec2Model ----
(***************************************************************************)
(* Pod lifecycle controller and autoscaling dispatcher                     *)
(* (src/core/pod.py, src/core/pod_manager.py, src/core/types.py).         *)
(*                                                                         *)
(* Threads of the program and how they appear here:                        *)
(*   - the control loop PodManager._background_work  (cpc, dleft)          *)
(*   - the expiry reaper PodManager._clear_prompts   (rpc)                 *)
(*   - one initializer thread per Pod construction / resume (thr)          *)
(*   - one dispatch thread per popped prompt, _process_request (task)      *)
(*   - one caller per prompt, PodManager.queue_prompt (caller)             *)
(*   - the caller of PodManager.stop                 (spc, sidx)           *)
(* The provider REST API and the pod's own HTTP server are the             *)
(* environment: prov holds the provider's pods, and each call's outcome    *)
(* is chosen nondeterministically among those the run's faults (env)       *)
(* allow.                                                                  *)
(***************************************************************************)
EXTENDS Integers, Sequences, FiniteSets, TLC

\* ---------------------------------------------------------------- bounds
\* Pod objects constructed over a run (adopted + created by floor fill).
MaxPods == 3
\* Prompts enqueued over a run.
MaxPrompts == 2
\* Initializer threads of one pod alive at the same time.
MaxInit == 2
\* The clock stops advancing here.
MaxTime == 3
\* Matching provider pods found at startup: 0..NumExisting.
NumExisting == 2

\* ------------------------------------------- constants (core/constants.py)
POD_MAX_NUM == 1
POD_MIN_NUM == 0
POD_SCALING_SENSIVITY == 50
POD_CREATE_RETRY_MAX == 1
POD_START_RETRY_MAX == 2
POD_RUN_SERVER_RETRY_MAX == 1
\* seconds; the clock counts in the same unit
POD_REQUEST_TIMEOUT_RETRY_MAX == 1
\* deque([], maxlen=300), scaled down
HistoryMaxLen == 1
\* time.time() at manager construction: far from the epoch value 0 that
\* Pod.__init__ gives _latest_updated_time
StartTime == 2

PodIds == 1..MaxPods
PromptIds == 1..MaxPrompts
Slots == 1..MaxInit

\* PodState (types.py)
Creating == "Creating"
Starting == "Starting"
Processing == "Processing"
Free == "Free"
Stopped == "Stopped"
Terminated == "Terminated"
PodState == {Creating, Starting, Processing, Free, Stopped, Terminated}

\* Optional values
None == "None"
\* a pod_id or a Pod reference that is None
NoId == 0
\* PodInfo(port_mappings, public_ip) with a non-empty public_ip and a 8188 port
Info == "info"

VARIABLES
    pod,        \* Pod objects: [state, pod_id, pod_info, is_working, latest, init_thread]
    thr,        \* initializer threads of each pod: slot -> [pc, retries, init]
    made,       \* number of Pod objects constructed so far
    pods,       \* PodManager._pods: sequence of Pod objects
    prov,       \* the provider's pods, by id: absent | running | exited | deleted
    queued,     \* _queued_prompts (dict, insertion order)
    processing, \* _processing_prompts (key set)
    completed,  \* _completed_prompts: key -> result, None when absent
    history,    \* _prompts_histories
    stopped,    \* _stopped
    cpc,        \* control loop position
    dleft,      \* control loop: remaining iterations of the dispatch for-loop
    rpc,        \* expiry reaper position
    task,       \* dispatch threads: prompt -> [pc, pod, res]
    caller,     \* queue_prompt callers: prompt -> [pc, start, ret]
    spc,        \* PodManager.stop position
    sidx,       \* PodManager.stop: index of its for-loop over self.pods
    spod,       \* PodManager.stop: the pod its while-loop is destroying
    now,        \* time.time()
    env,        \* the faults the provider and the pod servers may show in this run
    data,       \* the provider's answer to GET /v1/pods at startup
    creates,    \* provider create calls that succeeded, per Pod object
    drv,        \* a direct caller of Pod.stop then Pod.resume: [pc, pod_id, creates, free]
    over        \* consecutive control-loop ticks that ended above POD_MAX_NUM
vars == <<pod, thr, made, pods, prov, queued, processing, completed, history,
          stopped, cpc, dleft, rpc, task, caller, spc, sidx, spod, now,
          env, data, creates, drv, over>>

\* ------------------------------------------------------------ sequences
SeqToSet(s) == {s[i] : i \in 1..Len(s)}
RemoveAt(s, i) == SubSeq(s, 1, i - 1) \o SubSeq(s, i + 1, Len(s))
Min(a, b) == IF a < b THEN a ELSE b
B2N(b) == IF b THEN 1 ELSE 0

\* Python's sorted(): stable, ascending in key k (a function on the elements).
RECURSIVE StableSort(_, _)
StableSort(s, k) ==
    IF s = <<>> THEN <<>>
    ELSE LET front == StableSort(SubSeq(s, 1, Len(s) - 1), k)
             x == s[Len(s)]
             n == Cardinality({i \in 1..Len(front) : k[front[i]] <= k[x]})
         IN  SubSeq(front, 1, n) \o <<x>> \o SubSeq(front, n + 1, Len(front))

\* ------------------------------------------------------------- Pod (pod.py)
\* Pod.__init__: state Creating, no pod_info, latest_updated_time 0, and the
\* initializer thread started in slot 1.
NewPod(id) ==
    [state |-> Creating, pod_id |-> id, pod_info |-> None,
     is_working |-> FALSE, latest |-> 0, init_thread |-> 1]
NoThread == [pc |-> "done", retries |-> 0, init |-> FALSE]
\* Pod._initialize entered: create when pod_id is None, else resume-and-poll.
StartThread(id) ==
    [pc |-> IF id = NoId THEN "create" ELSE "rpoll", retries |-> 0, init |-> TRUE]
NewThreads(id) == [s \in Slots |-> IF s = 1 THEN StartThread(id) ELSE NoThread]

\* The provider knows the pod this Pod object names.
Exists(P, id) == id # NoId /\ P[id] \in {"running", "exited"}

FreeSlots(T, p) == {s \in Slots : T[p][s].pc = "done"}
FreeSlot(T, p) == CHOOSE s \in FreeSlots(T, p) : \A u \in FreeSlots(T, p) : s <= u

\* core/utils.py terminate_thread(self.init_thread): the thread stops running.
terminate_thread(T, p, s) == [T EXCEPT ![p][s] = NoThread]

\* A world is the part of the state Pod.stop / resume / destroy work on.
World(D, T, P) == [pod |-> D, thr |-> T, prov |-> P]

\* Pod.stop(): ok is the provider's answer to an existing pod.
PodStopOk(W, p, ok) == ok /\ Exists(W.prov, W.pod[p].pod_id)
\* Pod.stop() with the initializer terminated and pod_info cleared before
\* the provider's answer is looked at.
PodStopClearsFirst(W, p, ok) ==
    IF PodStopOk(W, p, ok)
    THEN World([W.pod EXCEPT ![p].pod_info = None, ![p].state = Stopped],
               terminate_thread(W.thr, p, W.pod[p].init_thread),
               [W.prov EXCEPT ![W.pod[p].pod_id] = "exited"])
    ELSE World([W.pod EXCEPT ![p].pod_info = None],
               terminate_thread(W.thr, p, W.pod[p].init_thread), W.prov)
PodStop(W, p, ok) ==
    IF PodStopOk(W, p, ok)
    THEN World([W.pod EXCEPT ![p].pod_info = None, ![p].state = Stopped],
               terminate_thread(W.thr, p, W.pod[p].init_thread),
               [W.prov EXCEPT ![W.pod[p].pod_id] = "exited"])
    ELSE W

\* Pod.resume(): a new initializer thread is started and becomes init_thread.
PodResumeOk(W, p, ok) ==
    ok /\ Exists(W.prov, W.pod[p].pod_id) /\ FreeSlots(W.thr, p) # {}
PodResume(W, p, ok) ==
    IF PodResumeOk(W, p, ok)
    THEN LET s == FreeSlot(W.thr, p)
         IN  World([W.pod EXCEPT ![p].pod_info = None, ![p].state = Creating,
                                 ![p].init_thread = s],
                   [W.thr EXCEPT ![p][s] = StartThread(W.pod[p].pod_id)],
                   [W.prov EXCEPT ![W.pod[p].pod_id] = "running"])
    ELSE W

\* Pod.destroy(): the provider deletes the pod; the initializer is terminated.
PodDestroyOk(W, p, ok) == ok /\ Exists(W.prov, W.pod[p].pod_id)
PodDestroy(W, p, ok) ==
    IF PodDestroyOk(W, p, ok)
    THEN World(W.pod,
               terminate_thread(W.thr, p, W.pod[p].init_thread),
               [W.prov EXCEPT ![W.pod[p].pod_id] = "deleted"])
    ELSE W

\* --------------------------------------------- the environment's answers
\* env is a set of fault kinds, fixed for a run:
\*   "create_fails"  POST /v1/pods may fail
\*   "call_fails"    a stop, start, delete or GET of an existing pod may fail
\*   "no_ident"      a running pod may be reported without its network identity
\*   "not_ready"     /health may report not ready
\*   "never_ready"   /health never reports ready
\*   "process_fails" /process may fail
Faults == {"create_fails", "call_fails", "no_ident", "not_ready", "never_ready",
           "process_fails"}

\* The provider's answer to a stop, start or delete of an existing pod.
Answers == IF "call_fails" \in env THEN {TRUE, FALSE} ELSE {TRUE}
\* The provider's answer to POST /v1/pods.
CreateAnswers == IF "create_fails" \in env THEN {TRUE, FALSE} ELSE {TRUE}

\* GET /v1/pods/{id} as the initializer reads it: "ident" (portMappings and
\* publicIp present), "noident" (not allocated yet, or the pod is not
\* running) or "error" (no such pod, or the call failed).
PollAnswers(p) ==
    LET id == pod[p].pod_id
    IN  (IF Exists(prov, id) /\ prov[id] = "running"
         THEN {"ident"} \cup (IF "no_ident" \in env THEN {"noident"} ELSE {})
         ELSE IF Exists(prov, id) THEN {"noident"}
         ELSE {"error"})
        \cup (IF "call_fails" \in env THEN {"error"} ELSE {})

\* GET http://{ip}:{port}/health: ready only from a running pod.
HealthAnswers(p) ==
    LET id == pod[p].pod_id
    IN  IF Exists(prov, id) /\ prov[id] = "running" /\ "never_ready" \notin env
        THEN {TRUE} \cup (IF "not_ready" \in env THEN {FALSE} ELSE {})
        ELSE {FALSE}

\* POST http://{ip}:{port}/process: 2xx only from a running pod.
ProcessAnswers(p) ==
    LET id == pod[p].pod_id
    IN  IF Exists(prov, id) /\ prov[id] = "running"
        THEN {TRUE} \cup (IF "process_fails" \in env THEN {FALSE} ELSE {})
        ELSE {FALSE}

\* ------------------------------------------------------ history variables
\* The pods of the list that are neither Stopped nor Terminated are more
\* than POD_MAX_NUM.
Above(D, L) ==
    Cardinality({i \in 1..Len(L) : D[L[i]].state \notin {Stopped, Terminated}})
        > POD_MAX_NUM

\* over counts the control-loop ticks in a row that ended (at the sleep) with
\* more than POD_MAX_NUM pods neither Stopped nor Terminated, the number
\* having stayed above POD_MAX_NUM in between.
MaxOver == 3
OverUpdate ==
    over' = IF ~Above(pod', pods') THEN 0
            ELSE IF cpc = "reap" /\ cpc' = "check" THEN Min(over + 1, MaxOver)
            ELSE over

\* drv follows a direct caller of Pod.stop() then Pod.resume() on one pod:
\* the pod_id and the number of creates at the stop, and whether the pod was
\* seen in state Free after the resume().
NoDriver == [pc |-> "idle", pod_id |-> NoId, creates |-> 0, free |-> FALSE]
DriverUpdate(p) ==
    drv' = IF drv.pc = "resumed" /\ pod'[p].state = Free
           THEN [drv EXCEPT !.free = TRUE] ELSE drv

\* ------------------------------------------ Pod._initialize (one thread)
Running(p, s) == p \in 1..made /\ thr[p][s].pc # "done"
\* What a step of an initializer of pod p leaves alone.
ThreadFrame(p) ==
    /\ UNCHANGED <<made, pods, queued, processing, completed, history, stopped,
                   cpc, dleft, rpc, task, caller, spc, sidx, spod, now, env, data>>
    /\ DriverUpdate(p)
    /\ OverUpdate

\* Pod._create_pod: one pass of its while loop, or its else branch.
InitCreate(p, s) ==
    /\ Running(p, s) /\ thr[p][s].pc = "create"
    /\ IF thr[p][s].retries < POD_CREATE_RETRY_MAX
       THEN \E ok \in CreateAnswers :
              IF ok
              THEN /\ pod' = [pod EXCEPT ![p].pod_id = p]
                   /\ prov' = [prov EXCEPT ![p] = "running"]
                   /\ creates' = [creates EXCEPT ![p] = Min(@ + 1, 2)]
                   /\ thr' = [thr EXCEPT ![p][s].pc = "poll", ![p][s].retries = 0]
              ELSE /\ thr' = [thr EXCEPT ![p][s].retries = @ + 1]
                   /\ UNCHANGED <<pod, prov, creates>>
       ELSE /\ pod' = [pod EXCEPT ![p].state = Terminated]
            /\ thr' = [thr EXCEPT ![p][s] = NoThread]
            /\ UNCHANGED <<prov, creates>>
    /\ ThreadFrame(p)

\* Pod._get_pod_info and Pod._resume_pod_and_get_pod_info: one pass of the
\* while loop, or the else branch (the caller then stores None in pod_info).
InitPoll(p, s) ==
    /\ Running(p, s) /\ thr[p][s].pc \in {"poll", "rpoll"}
    /\ IF thr[p][s].retries < POD_START_RETRY_MAX
       THEN \E a \in PollAnswers(p) :
              CASE a = "ident" ->
                     /\ pod' = [pod EXCEPT ![p].state = Starting]
                     /\ thr' = [thr EXCEPT ![p][s].pc = "setinfo"]
                     /\ UNCHANGED prov
                [] a = "noident" /\ thr[p][s].pc = "rpoll" /\ thr[p][s].init ->
                     \E ok \in Answers :
                       LET T0 == [thr EXCEPT ![p][s].init = FALSE,
                                             ![p][s].retries = @ + 1]
                           W == PodResume(World(pod, T0, prov), p, ok)
                       IN  /\ (ok => FreeSlots(thr, p) # {})
                           /\ pod' = W.pod /\ thr' = W.thr /\ prov' = W.prov
                [] OTHER ->
                     /\ thr' = [thr EXCEPT ![p][s].retries = @ + 1]
                     /\ UNCHANGED <<pod, prov>>
       ELSE /\ pod' = [pod EXCEPT ![p].state = Terminated, ![p].pod_info = None]
            /\ thr' = [thr EXCEPT ![p][s] = NoThread]
            /\ UNCHANGED prov
    /\ UNCHANGED creates
    /\ ThreadFrame(p)

\* Pod._initialize: self.pod_info = <the PodInfo returned>.
InitSetInfo(p, s) ==
    /\ Running(p, s) /\ thr[p][s].pc = "setinfo"
    /\ pod' = [pod EXCEPT ![p].pod_info = Info]
    /\ thr' = [thr EXCEPT ![p][s].pc = "isnone"]
    /\ UNCHANGED <<prov, creates>>
    /\ ThreadFrame(p)

\* Pod._initialize: if self.pod_info is None: return
InitIsNone(p, s) ==
    /\ Running(p, s) /\ thr[p][s].pc = "isnone"
    /\ thr' = [thr EXCEPT ![p][s] =
                 IF pod[p].pod_info = None THEN NoThread ELSE [@ EXCEPT !.pc = "check0"]]
    /\ UNCHANGED <<pod, prov, creates>>
    /\ ThreadFrame(p)

\* Pod._check_server, its first line: reading self.pod_info.public_ip raises
\* when pod_info is None, and _initialize's except sets Terminated.
InitCheckEnter(p, s) ==
    /\ Running(p, s) /\ thr[p][s].pc = "check0"
    /\ IF pod[p].pod_info = None
       THEN /\ pod' = [pod EXCEPT ![p].state = Terminated]
            /\ thr' = [thr EXCEPT ![p][s] = NoThread]
       ELSE /\ thr' = [thr EXCEPT ![p][s].pc = "check", ![p][s].retries = 0]
            /\ UNCHANGED pod
    /\ UNCHANGED <<prov, creates>>
    /\ ThreadFrame(p)

\* _check_server with `retries <= POD_RUN_SERVER_RETRY_MAX` as its loop
\* condition: one health check too many.
InitCheckOneMore(p, s) ==
    /\ Running(p, s) /\ thr[p][s].pc = "check"
    /\ IF thr[p][s].retries <= POD_RUN_SERVER_RETRY_MAX
       THEN \E ready \in HealthAnswers(p) :
              IF ready
              THEN /\ pod' = [pod EXCEPT ![p].latest = now, ![p].state = Free]
                   /\ thr' = [thr EXCEPT ![p][s] = NoThread]
              ELSE /\ thr' = [thr EXCEPT ![p][s].retries = @ + 1]
                   /\ UNCHANGED pod
       ELSE /\ pod' = [pod EXCEPT ![p].state = Terminated]
            /\ thr' = [thr EXCEPT ![p][s] = NoThread]
    /\ UNCHANGED <<prov, creates>>
    /\ ThreadFrame(p)

\* Pod._check_server: one pass of its while loop, or its else branch.
InitCheck(p, s) ==
    /\ Running(p, s) /\ thr[p][s].pc = "check"
    /\ IF thr[p][s].retries < POD_RUN_SERVER_RETRY_MAX
       THEN \E ready \in HealthAnswers(p) :
              IF ready
              THEN /\ pod' = [pod EXCEPT ![p].latest = now, ![p].state = Free]
                   /\ thr' = [thr EXCEPT ![p][s] = NoThread]
              ELSE /\ thr' = [thr EXCEPT ![p][s].retries = @ + 1]
                   /\ UNCHANGED pod
       ELSE /\ pod' = [pod EXCEPT ![p].state = Terminated]
            /\ thr' = [thr EXCEPT ![p][s] = NoThread]
    /\ UNCHANGED <<prov, creates>>
    /\ ThreadFrame(p)

\* ------------------------------- PodManager._background_work (pod_manager.py)
\* Outcomes of the provider calls one step of the control loop makes, in the
\* order of the calls.
Outcomes(n) == [1..n -> Answers]

\* Ceiling trim: sorted(self.pods, key=(state != Stopped, state != Creating,
\* state != Starting, latest_updated_time)).
TrimKey(D) ==
    [p \in PodIds |->
        ((B2N(D[p].state # Stopped) * 2 + B2N(D[p].state # Creating)) * 2
            + B2N(D[p].state # Starting)) * (MaxTime + 1) + D[p].latest]

RECURSIVE TrimScan(_, _, _, _, _)
TrimScan(D, order, i, terminated_count, extra_size) ==
    IF i > Len(order) \/ terminated_count >= extra_size THEN D
    ELSE LET p == order[i]
         IN  IF D[p].state = Processing \/ D[p].state = Terminated \/ D[p].is_working
             THEN TrimScan(D, order, i + 1, terminated_count, extra_size)
             ELSE TrimScan([D EXCEPT ![p].state = Terminated], order, i + 1,
                           terminated_count + 1, extra_size)

Trim(D, L) == TrimScan(D, StableSort(L, TrimKey(D)), 1, 0, Len(L) - POD_MAX_NUM)

\* The dispatch key without its `state == Free` component.
DispatchKeyNoFree(D) ==
    [p \in PodIds |->
        0 - (((B2N(~D[p].is_working) * 2 + B2N(D[p].state = Starting)) * 2
                + B2N(D[p].state = Creating)) * (MaxTime + 1) + D[p].latest)]

\* Dispatch: sorted(self.pods, key=(not is_working, state == Free,
\* state == Starting, state == Creating, latest_updated_time), reverse=True).
\* A reversed stable sort keeps equal elements in their original order.
DispatchKey(D) ==
    [p \in PodIds |->
        0 - ((((B2N(~D[p].is_working) * 2 + B2N(D[p].state = Free)) * 2
                + B2N(D[p].state = Starting)) * 2
                + B2N(D[p].state = Creating)) * (MaxTime + 1) + D[p].latest)]

\* The inner for-loop of one dispatch iteration: the pod handed the prompt
\* (None when the loop ends without a break), and the world after the
\* resume() calls it made. c counts the provider calls made so far.
RECURSIVE DispatchScan(_, _, _, _, _)
DispatchScan(W, order, i, outs, c) ==
    IF i > Len(order) THEN [w |-> W, chosen |-> NoId]
    ELSE LET p == order[i]
         IN  IF W.pod[p].is_working \/ W.pod[p].state = Terminated
             THEN DispatchScan(W, order, i + 1, outs, c)
             ELSE IF W.pod[p].state = Stopped
             THEN IF PodResumeOk(W, p, outs[c + 1])
                  THEN [w |-> PodResume(W, p, outs[c + 1]), chosen |-> p]
                  ELSE DispatchScan(W, order, i + 1, outs, c + 1)
             ELSE [w |-> W, chosen |-> p]

\* PodManager._calc_num_pods: the history after the append, and the target.
RECURSIVE Sum(_)
Sum(s) == IF s = <<>> THEN 0 ELSE s[1] + Sum(Tail(s))
RECURSIVE Max(_)
Max(s) == IF Len(s) = 1 THEN s[1]
          ELSE LET m == Max(Tail(s)) IN IF s[1] > m THEN s[1] ELSE m
Append300(h, x) ==
    IF Len(h) < HistoryMaxLen THEN Append(h, x) ELSE Append(Tail(h), x)
\* Python's round(): to the nearest integer, a tie to the even one.
Round(num, den) ==
    LET q == num \div den
        r == num % den
    IN  IF 2 * r < den THEN q
        ELSE IF 2 * r > den THEN q + 1
        ELSE IF q % 2 = 0 THEN q ELSE q + 1
\* weighted_load * 1.2 = 12 * (sum * (100 - S) + peak * S * len) / (1000 * len)
calc_num_pods(h) ==
    Min(POD_MAX_NUM,
        POD_MIN_NUM + Round(12 * (Sum(h) * (100 - POD_SCALING_SENSIVITY)
                                  + Max(h) * POD_SCALING_SENSIVITY * Len(h)),
                            1000 * Len(h)))

Active(D, L) ==
    Cardinality({i \in 1..Len(L) :
        D[L[i]].state \in {Creating, Starting, Processing, Free}})

LatestKey(D) == [p \in PodIds |-> D[p].latest]

\* Scale down: for _ in range(extra_num): for pod in sorted(self.pods,
\* key=latest_updated_time): stop the eligible pod; break once extra_count
\* reaches extra_num.
StopEligible(D, p) ==
    /\ D[p].state # Stopped
    /\ D[p].state # Terminated
    /\ ~D[p].is_working
    /\ now - D[p].latest > POD_REQUEST_TIMEOUT_RETRY_MAX

RECURSIVE DownInner(_, _, _, _, _, _, _)
DownInner(W, order, i, extra_count, extra_num, outs, c) ==
    IF i > Len(order) THEN [w |-> W, count |-> extra_count, c |-> c]
    ELSE LET p == order[i]
             call == StopEligible(W.pod, p)
             ok == call /\ PodStopOk(W, p, outs[c + 1])
             W1 == IF ok THEN PodStop(W, p, TRUE) ELSE W
             n1 == extra_count + B2N(ok)
             c1 == c + B2N(call)
         IN  IF n1 >= extra_num THEN [w |-> W1, count |-> n1, c |-> c1]
             ELSE DownInner(W1, order, i + 1, n1, extra_num, outs, c1)

RECURSIVE ScaleDown(_, _, _, _, _, _, _)
ScaleDown(W, L, j, extra_count, extra_num, outs, c) ==
    IF j > extra_num THEN [w |-> W, count |-> extra_count]
    ELSE LET r == DownInner(W, StableSort(L, LatestKey(W.pod)), 1, extra_count,
                            extra_num, outs, c)
         IN  ScaleDown(r.w, L, j + 1, r.count, extra_num, outs, r.c)

\* Scale up: for _ in range(extra_num): for pod in self.pods: resume the
\* Stopped pod; break once extra_count reaches extra_num.
RECURSIVE UpInner(_, _, _, _, _, _, _)
UpInner(W, L, i, extra_count, extra_num, outs, c) ==
    IF i > Len(L) THEN [w |-> W, count |-> extra_count, c |-> c]
    ELSE LET p == L[i]
             call == W.pod[p].state = Stopped
             ok == call /\ PodResumeOk(W, p, outs[c + 1])
             W1 == IF ok THEN PodResume(W, p, TRUE) ELSE W
             n1 == extra_count + B2N(ok)
             c1 == c + B2N(call)
         IN  IF n1 >= extra_num THEN [w |-> W1, count |-> n1, c |-> c1]
             ELSE UpInner(W1, L, i + 1, n1, extra_num, outs, c1)

RECURSIVE ScaleUp(_, _, _, _, _, _, _)
ScaleUp(W, L, j, extra_count, extra_num, outs, c) ==
    IF j > extra_num THEN [w |-> W, count |-> extra_count]
    ELSE LET r == UpInner(W, L, 1, extra_count, extra_num, outs, c)
         IN  ScaleUp(r.w, L, j + 1, r.count, extra_num, outs, r.c)

\* Reap: for pod in self.pods: if Terminated and destroy(): self.pods.remove(pod).
\* The list iterator is an index: after a removal it skips the next element.
RECURSIVE ReapScan(_, _, _, _, _)
ReapScan(W, L, i, outs, c) ==
    IF i > Len(L) THEN [w |-> W, pods |-> L]
    ELSE LET p == L[i]
         IN  IF W.pod[p].state # Terminated
             THEN ReapScan(W, L, i + 1, outs, c)
             ELSE IF PodDestroyOk(W, p, outs[c + 1])
             THEN ReapScan(PodDestroy(W, p, TRUE), RemoveAt(L, i), i + 1, outs, c + 1)
             ELSE ReapScan(W, L, i + 1, outs, c + 1)

\* while not self.stopped:
CtlCheck ==
    /\ cpc = "check"
    /\ cpc' = IF stopped THEN "exited" ELSE "fill"
    /\ UNCHANGED <<pod, thr, made, pods, prov, queued, processing, completed,
                   history, stopped, dleft, rpc, task, caller, spc, sidx, spod,
                   now, env, data, creates, drv>>
    /\ OverUpdate

\* Floor fill (a new Pod is constructed and appended) or ceiling trim; then
\* range(len(self.queued_prompts)) is evaluated.
CtlFill ==
    /\ cpc = "fill"
    /\ IF Len(pods) < POD_MAX_NUM
       THEN /\ made < MaxPods
            /\ made' = made + 1
            /\ pod' = [pod EXCEPT ![made + 1] = NewPod(NoId)]
            /\ thr' = [thr EXCEPT ![made + 1] = NewThreads(NoId)]
            /\ pods' = Append(pods, made + 1)
       ELSE /\ pod' = IF Len(pods) > POD_MAX_NUM THEN Trim(pod, pods) ELSE pod
            /\ UNCHANGED <<made, thr, pods>>
    /\ dleft' = Len(queued)
    /\ cpc' = "dispatch"
    /\ UNCHANGED <<prov, queued, processing, completed, history, stopped, rpc,
                   task, caller, spc, sidx, spod, now, env, data, creates, drv>>
    /\ OverUpdate

\* The newest key of the dict instead of its first one.
LastKey(q) == q[Len(q)]

\* key = next(iter(self.queued_prompts)): a dict iterates in insertion order.
FirstKey(q) == Head(q)

\* A lookup of the key that leaves it in the dict.
PopKeeps(q, key) == q

\* self.queued_prompts.pop(key, None): the dict without the key.
Pop(q, key) == SelectSeq(q, LAMBDA j : j # key)

\* One iteration of for _ in range(len(self.queued_prompts)): the first
\* acceptable pod of the sorted list gets the oldest queued prompt and a
\* _process_request thread is started with (pod, key, prompt).
CtlDispatch ==
    /\ cpc = "dispatch" /\ dleft > 0
    /\ \E outs \in Outcomes(Len(pods)) :
         LET r == DispatchScan(World(pod, thr, prov),
                               StableSort(pods, DispatchKey(pod)), 1, outs, 0)
         IN  /\ pod' = r.w.pod /\ thr' = r.w.thr /\ prov' = r.w.prov
             /\ IF r.chosen = NoId
                THEN /\ cpc' = cpc
                     /\ UNCHANGED <<queued, task>>
                ELSE IF queued = <<>>
                THEN /\ cpc' = "crashed"
                     /\ UNCHANGED <<queued, task>>
                ELSE /\ cpc' = cpc
                     /\ queued' = Pop(queued, FirstKey(queued))
                     /\ task' = [task EXCEPT ![FirstKey(queued)] =
                                    [pc |-> "start", pod |-> r.chosen, res |-> None]]
    /\ dleft' = dleft - 1
    /\ UNCHANGED <<made, pods, processing, completed, history, stopped, rpc,
                   caller, spc, sidx, spod, now, env, data, creates, drv>>
    /\ OverUpdate

\* Autoscale: _calc_num_pods, then the scale-down or the scale-up loops.
CtlScale ==
    /\ cpc = "dispatch" /\ dleft = 0
    /\ history' = Append300(history, Len(queued) + Cardinality(processing))
    /\ LET num_pods == calc_num_pods(history')
           cur_num_pods == Active(pod, pods)
           W == World(pod, thr, prov)
       IN  \E outs \in Outcomes(Len(pods) * Len(pods)) :
             LET r == IF cur_num_pods > num_pods
                      THEN ScaleDown(W, pods, 1, 0, cur_num_pods - num_pods, outs, 0)
                      ELSE ScaleUp(W, pods, 1, 0, num_pods - cur_num_pods, outs, 0)
             IN  pod' = r.w.pod /\ thr' = r.w.thr /\ prov' = r.w.prov
    /\ cpc' = "reap"
    /\ UNCHANGED <<made, pods, queued, processing, completed, stopped, dleft,
                   rpc, task, caller, spc, sidx, spod, now, env, data, creates, drv>>
    /\ OverUpdate

\* Reap, then time.sleep(50 / 1000.).
CtlReap ==
    /\ cpc = "reap"
    /\ \E outs \in Outcomes(Len(pods)) :
         LET r == ReapScan(World(pod, thr, prov), pods, 1, outs, 0)
         IN  pod' = r.w.pod /\ thr' = r.w.thr /\ prov' = r.w.prov /\ pods' = r.pods
    /\ cpc' = "check"
    /\ UNCHANGED <<made, queued, processing, completed, history, stopped, dleft,
                   rpc, task, caller, spc, sidx, spod, now, env, data, creates, drv>>
    /\ OverUpdate

\* ------------------------------------------- PodManager._process_request
TaskFrame ==
    /\ UNCHANGED <<thr, made, pods, prov, queued, history, stopped, cpc, dleft,
                   rpc, caller, spc, sidx, spod, now, env, data, creates, drv>>
    /\ OverUpdate

\* PromptResult values
Success == "success"
UnknownError == "Unknown error occurred."
NotWorking == "Pod is not working."
ProcessingTimeout == "Processing timeout."
unknown_error == "unknown error occurred."
RequestTimeout == "request timeout."

\* A _process_request thread that has ended.
TaskDone == [pc |-> "done", pod |-> NoId, res |-> None]

\* Pod.queue has returned (or raised) with result res: processing.pop(id),
\* pod.is_working = False, and the thread ends there when the pop gave None.
TaskReturn(k, D, res) ==
    /\ pod' = [D EXCEPT ![task[k].pod].is_working = FALSE]
    /\ processing' = processing \ {k}
    /\ task' = [task EXCEPT ![k] = IF k \in processing
                                     THEN [@ EXCEPT !.pc = "popped", !.res = res]
                                     ELSE TaskDone]
    /\ UNCHANGED completed

\* self.processing_prompts[id] = prompt; pod.is_working = True; and the first
\* two lines of Pod.queue.
TaskBegin(k) ==
    /\ task[k].pc = "start"
    /\ processing' = processing \cup {k}
    /\ pod' = [pod EXCEPT ![task[k].pod].is_working = TRUE,
                          ![task[k].pod].latest = now]
    /\ task' = [task EXCEPT ![k].pc = "waiting"]
    /\ UNCHANGED completed
    /\ TaskFrame

\* Pod.queue: one pass of its while loop that does not sleep, or its else
\* branch. The third elif's condition is always true.
TaskWait(k) ==
    /\ task[k].pc = "waiting"
    /\ LET p == task[k].pod
       IN  IF now - pod[p].latest < POD_REQUEST_TIMEOUT_RETRY_MAX
           THEN IF pod[p].state = Free /\ pod[p].pod_info # None
                THEN /\ task' = [task EXCEPT ![k].pc = "ready"]
                     /\ UNCHANGED <<pod, processing, completed>>
                ELSE /\ pod[p].state \notin {Creating, Starting, Processing}
                     /\ TaskReturn(k, [pod EXCEPT ![p].latest = now], NotWorking)
           ELSE TaskReturn(k, [pod EXCEPT ![p].latest = now], ProcessingTimeout)
    /\ TaskFrame

\* Pod.queue: self.state = Processing, then self.pod_info.public_ip is read;
\* with pod_info None that raises, and _process_request's except reports
\* "unknown error occurred.".
TaskReady(k) ==
    /\ task[k].pc = "ready"
    /\ LET p == task[k].pod
           D == [pod EXCEPT ![p].state = Processing]
       IN  IF pod[p].pod_info = None
           THEN TaskReturn(k, D, unknown_error)
           ELSE /\ pod' = D
                /\ task' = [task EXCEPT ![k].pc = "posting"]
                /\ UNCHANGED <<processing, completed>>
    /\ TaskFrame

\* Pod.queue: the POST to /process answers or fails; either way is_working is
\* cleared, state is set to Free and latest_updated_time to now.
TaskPost(k) ==
    /\ task[k].pc = "posting"
    /\ LET p == task[k].pod
       IN  \E ok \in ProcessAnswers(p) :
             TaskReturn(k, [pod EXCEPT ![p].state = Free, ![p].latest = now],
                        IF ok THEN Success ELSE UnknownError)
    /\ TaskFrame

\* res_prompt.result = response; self.completed_prompts[id] = res_prompt
TaskComplete(k) ==
    /\ task[k].pc = "popped"
    /\ completed' = [completed EXCEPT ![k] = task[k].res]
    /\ task' = [task EXCEPT ![k] = TaskDone]
    /\ UNCHANGED <<pod, processing>>
    /\ TaskFrame

\* ------------------------------------------------ PodManager.queue_prompt
\* A fresh key is registered in queued_prompts and the wait starts.
Enqueue(k) ==
    /\ caller[k].pc = "idle"
    /\ \A j \in PromptIds : j < k => caller[j].pc # "idle"
    /\ queued' = Append(queued, k)
    /\ caller' = [caller EXCEPT ![k].pc = "waiting", ![k].start = now]
    /\ UNCHANGED <<pod, thr, made, pods, prov, processing, completed, history,
                   stopped, cpc, dleft, rpc, task, spc, sidx, spod, now,
                   env, data, creates, drv>>
    /\ OverUpdate

\* One pass of the wait loop that does not sleep (the result is popped from
\* completed_prompts and returned), or its else branch.
CallerPoll(k) ==
    /\ caller[k].pc = "waiting"
    /\ IF now - caller[k].start < POD_REQUEST_TIMEOUT_RETRY_MAX
       THEN /\ completed[k] # None
            /\ completed' = [completed EXCEPT ![k] = None]
            /\ caller' = [caller EXCEPT ![k] = [pc |-> "done", start |-> 0,
                                                 ret |-> completed[k]]]
       ELSE /\ caller' = [caller EXCEPT ![k] = [pc |-> "done", start |-> 0,
                                                 ret |-> RequestTimeout]]
            /\ UNCHANGED completed
    /\ UNCHANGED <<pod, thr, made, pods, prov, queued, processing, history,
                   stopped, cpc, dleft, rpc, task, spc, sidx, spod, now,
                   env, data, creates, drv>>
    /\ OverUpdate

\* ----------------------------------------------- PodManager._clear_prompts
\* One pass of the reaper's loop. Prompt (types.py) has no start_time, so the
\* first comprehension that meets a prompt raises and the thread ends.
ClearPrompts ==
    /\ rpc = "run"
    /\ IF stopped THEN rpc' = "exited"
       ELSE /\ queued # <<>> \/ processing # {}
               \/ \E k \in PromptIds : completed[k] # None
            /\ rpc' = "crashed"
    /\ UNCHANGED <<pod, thr, made, pods, prov, queued, processing, completed,
                   history, stopped, cpc, dleft, task, caller, spc, sidx, spod,
                   now, env, data, creates, drv>>
    /\ OverUpdate

\* --------------------------------------------------------- PodManager.stop
StopBegin ==
    /\ spc = "idle"
    /\ stopped' = TRUE
    /\ spc' = "iter"
    /\ sidx' = 1
    /\ UNCHANGED <<pod, thr, made, pods, prov, queued, processing, completed,
                   history, cpc, dleft, rpc, task, caller, spod, now,
                   env, data, creates, drv>>
    /\ OverUpdate

\* for pod in self.pods: the list iterator yields the next element, or ends.
StopNext ==
    /\ spc = "iter"
    /\ IF sidx > Len(pods)
       THEN spc' = "returned" /\ UNCHANGED <<sidx, spod>>
       ELSE spc' = "destroying" /\ sidx' = sidx + 1 /\ spod' = pods[sidx]
    /\ UNCHANGED <<pod, thr, made, pods, prov, queued, processing, completed,
                   history, stopped, cpc, dleft, rpc, task, caller, now,
                   env, data, creates, drv>>
    /\ OverUpdate

\* while not pod.destroy(): continue  -- the call that succeeds.
StopDestroy ==
    /\ spc = "destroying"
    /\ PodDestroyOk(World(pod, thr, prov), spod, TRUE)
    /\ LET W == PodDestroy(World(pod, thr, prov), spod, TRUE)
       IN  pod' = W.pod /\ thr' = W.thr /\ prov' = W.prov
    /\ spc' = "iter"
    /\ spod' = NoId
    /\ UNCHANGED <<made, pods, queued, processing, completed, history, stopped,
                   cpc, dleft, rpc, task, caller, sidx, now, env, data, creates, drv>>
    /\ OverUpdate

\* ---------------------------------------------------------------- the clock
Tick ==
    /\ now < MaxTime
    /\ now' = now + 1
    /\ UNCHANGED <<pod, thr, made, pods, prov, queued, processing, completed,
                   history, stopped, cpc, dleft, rpc, task, caller, spc, sidx,
                   spod, env, data, creates, drv>>
    /\ OverUpdate

\* ------------------------------------------------------------ specification
\* ------------------------------------- PodManager._check_existing_pods
\* Strings are sequences of characters. The manager's configuration:
pre_name == <<"v">>
template_id == "T"
volume_id == "V"
image_name == "I"

\* pod.get("name", None) of an entry without a name.
NoName == <<None>>
\* str(pod_name): the name itself, or "None" for an entry without a name.
Str(x) == IF x = NoName THEN <<"N", "o", "n", "e">> ELSE x
\* str.startswith
StartsWith(s, prefix) ==
    Len(s) >= Len(prefix) /\ SubSeq(s, 1, Len(prefix)) = prefix

\* Pod.check_pod on all three fields but the image name.
check_pod_no_image(e, ok) ==
    /\ ok
    /\ template_id = e.templateId
    /\ volume_id = e.networkVolumeId

\* Pod.check_pod: GET /v1/pods/{id} answers (ok) and the three fields equal
\* the manager's; any failure gives False.
check_pod(e, ok) ==
    /\ ok
    /\ template_id = e.templateId
    /\ volume_id = e.networkVolumeId
    /\ image_name = e.imageName

\* The for-loop of _check_existing_pods over the listing d, oks[i] being the
\* answer to check_pod's GET for entry i: the ids of the pods it constructs.
RECURSIVE check_existing_pods(_, _, _)
check_existing_pods(d, oks, i) ==
    IF i > Len(d) THEN <<>>
    ELSE LET e == d[i]
             rest == check_existing_pods(d, oks, i + 1)
         IN  IF e.id # NoId /\ StartsWith(Str(e.name), pre_name)
                  /\ check_pod(e, oks[i])
             THEN <<e.id>> \o rest
             ELSE rest

\* PodManager.__init__ and _check_existing_pods: the provider lists n matching
\* pods, each in one of the states st there (running, exited), and they are
\* adopted in that order; m more Pod objects have been constructed without
\* a pod_id; e is the run's set of faults.
InitWith(n, m, st, e) ==
    /\ made = n + m
    /\ pods = [i \in 1..(n + m) |-> i]
    /\ pod = [p \in PodIds |-> NewPod(IF p <= n THEN p ELSE NoId)]
    /\ thr = [p \in PodIds |->
                IF p <= n THEN NewThreads(p)
                ELSE IF p <= n + m THEN NewThreads(NoId)
                ELSE [s \in Slots |-> NoThread]]
    /\ prov \in {f \in [PodIds -> {"absent"} \cup st] :
                    \A p \in PodIds : f[p] = "absent" <=> p > n}
    /\ queued = <<>>
    /\ processing = {}
    /\ completed = [k \in PromptIds |-> None]
    /\ history = <<>>
    /\ stopped = FALSE
    /\ cpc = "check"
    /\ dleft = 0
    /\ rpc = "run"
    /\ task = [k \in PromptIds |-> [pc |-> "none", pod |-> NoId, res |-> None]]
    /\ caller = [k \in PromptIds |-> [pc |-> "idle", start |-> 0, ret |-> None]]
    /\ spc = "idle"
    /\ sidx = 0
    /\ spod = NoId
    /\ now = StartTime
    /\ env = e
    /\ data = <<>>
    /\ creates = [p \in PodIds |-> 0]
    /\ drv = NoDriver
    /\ over = 0

\* Pod.stop() called directly on pod p, while the initializer's outcome is
\* still open or the pod is Free.
DriverStop(p) ==
    /\ drv.pc = "idle"
    /\ pod[p].state # Terminated
    /\ PodStopOk(World(pod, thr, prov), p, TRUE)
    /\ LET W == PodStop(World(pod, thr, prov), p, TRUE)
       IN  pod' = W.pod /\ thr' = W.thr /\ prov' = W.prov
    /\ drv' = [pc |-> "stopped", pod_id |-> pod[p].pod_id,
               creates |-> creates[p], free |-> FALSE]
    /\ UNCHANGED <<made, pods, queued, processing, completed, history, stopped,
                   cpc, dleft, rpc, task, caller, spc, sidx, spod, now, env, data,
                   creates>>
    /\ OverUpdate

\* Pod.resume() called directly on pod p after that stop().
DriverResume(p) ==
    /\ drv.pc = "stopped"
    /\ PodResumeOk(World(pod, thr, prov), p, TRUE)
    /\ LET W == PodResume(World(pod, thr, prov), p, TRUE)
       IN  pod' = W.pod /\ thr' = W.thr /\ prov' = W.prov
    /\ drv' = [drv EXCEPT !.pc = "resumed"]
    /\ UNCHANGED <<made, pods, queued, processing, completed, history, stopped,
                   cpc, dleft, rpc, task, caller, spc, sidx, spod, now, env, data,
                   creates>>
    /\ OverUpdate

\* Pod.stop(), Pod.resume() or Pod.destroy() called directly on pod p, the
\* provider call failing: the provider answers with an error, or it does not
\* know the pod. The method returns False.
DriverFailedCall(p) ==
    /\ drv.pc \in {"idle", "stopped"}
    /\ p <= made
    /\ \E op \in {"stop", "resume", "destroy"} : \E ok \in Answers :
         LET W0 == World(pod, thr, prov)
             W == CASE op = "stop" -> PodStop(W0, p, ok)
                    [] op = "resume" -> PodResume(W0, p, ok)
                    [] OTHER -> PodDestroy(W0, p, ok)
         IN  /\ ~(ok /\ Exists(prov, pod[p].pod_id))
             /\ pod' = W.pod /\ thr' = W.thr /\ prov' = W.prov
    /\ drv' = [drv EXCEPT !.pc = "failed"]
    /\ UNCHANGED <<made, pods, queued, processing, completed, history, stopped,
                   cpc, dleft, rpc, task, caller, spc, sidx, spod, now, env, data,
                   creates>>
    /\ OverUpdate

\* The initializer threads.
ThreadStep ==
    \E p \in PodIds : \E s \in Slots :
        \/ InitCreate(p, s)
        \/ InitPoll(p, s)
        \/ InitSetInfo(p, s)
        \/ InitIsNone(p, s)
        \/ InitCheckEnter(p, s)
        \/ InitCheck(p, s)

\* The control loop.
ControlStep ==
    \/ CtlCheck
    \/ CtlFill
    \/ CtlDispatch
    \/ CtlScale
    \/ CtlReap

\* The callers of queue_prompt for the prompts K, and their dispatch threads.
PromptStep(K) ==
    \E k \in K :
        \/ Enqueue(k)
        \/ CallerPoll(k)
        \/ TaskBegin(k)
        \/ TaskWait(k)
        \/ TaskReady(k)
        \/ TaskPost(k)
        \/ TaskComplete(k)

\* PodManager.stop called once.
StopStep ==
    \/ StopBegin
    \/ StopNext
    \/ StopDestroy

\* The fleet of one pod: no pod, or one running pod adopted at startup; no
\* faults, two callers.
Init == \E n \in 0..1 : InitWith(n, 0, {"running"}, {})
Next == ThreadStep \/ ControlStep \/ PromptStep(PromptIds) \/ ClearPrompts \/ Tick
Spec == Init /\ [][Next]_vars

\* Adoption up to above the ceiling: 0..NumExisting running pods adopted, two
\* callers, everything within one clock unit.
InitTrim == \E n \in 0..NumExisting : InitWith(n, 0, {"running"}, {})
NextTrim == ThreadStep \/ ControlStep \/ PromptStep(PromptIds) \/ ClearPrompts
SpecTrim == InitTrim /\ [][NextTrim]_vars

\* PodManager.stop() called at any time; one caller.
InitStop == \E n \in 0..1 : InitWith(n, 0, {"running", "exited"}, {})
NextStop ==
    ThreadStep \/ ControlStep \/ PromptStep({1}) \/ StopStep \/ ClearPrompts \/ Tick
SpecStop == InitStop /\ [][NextStop]_vars

\* Pod servers that answer /health with ready, or (the fault "never_ready")
\* never do: then no pod ever becomes Free. One caller.
InitUnready ==
    \E n \in 0..1 : \E e \in {{}, {"never_ready"}} :
        InitWith(n, 0, {"running", "exited"}, e)
NextUnready == ThreadStep \/ ControlStep \/ PromptStep({1}) \/ ClearPrompts \/ Tick
SpecUnready == InitUnready /\ [][NextUnready]_vars

\* A provider that answers every request and may refuse to create a pod; one
\* caller. The
\* control loop and the initializer threads keep running (weak fairness: the
\* loop sleeps 50 ms between ticks, an initializer POD_RETRY_DELAY between tries).
InitReap == \E n \in 0..1 : InitWith(n, 0, {"running", "exited"}, {"create_fails"})
NextReap == ThreadStep \/ ControlStep \/ PromptStep({1}) \/ ClearPrompts \/ Tick
SpecReap ==
    InitReap /\ [][NextReap]_vars /\ WF_vars(ControlStep) /\ WF_vars(ThreadStep)
        /\ WF_vars(PromptStep({1}))

\* One Pod driven directly: constructed with or without a pod_id, then
\* stop() and resume() called once each; no faults.
InitPod == \E n \in 0..1 : InitWith(n, 1 - n, {"running", "exited"}, {})
NextPod == ThreadStep \/ DriverStop(1) \/ DriverResume(1)
SpecPod == InitPod /\ [][NextPod]_vars

\* One Pod driven directly, as in SpecPod, with a provider whose create and
\* other calls may fail and a pod server that may report not ready.
InitFaulty ==
    \E n \in 0..1 : \E e \in SUBSET {"create_fails", "call_fails", "not_ready"} :
        InitWith(n, 1 - n, {"running", "exited"}, e)
SpecFaulty == InitFaulty /\ [][NextPod]_vars

\* Startup against a provider that already holds pods: the listing has up to
\* NumExisting entries, each of them the manager's own pod or differing from
\* it in its name or in one of the three compared fields; the provider's ids
\* of listed pods lie above those it gives to the pods created later.
ListedId(i) == MaxPods + i
Names == {<<"v", "a">>, <<"x", "v">>, NoName}
Entries ==
    {e \in [name : Names, templateId : {"T", "U"},
            networkVolumeId : {"V", "W"}, imageName : {"I", "J"}] :
        B2N(e.name # <<"v", "a">>) + B2N(e.templateId # "T")
            + B2N(e.networkVolumeId # "V") + B2N(e.imageName # "I") <= 1}
Listings ==
    UNION {[1..n -> Entries] : n \in 0..Min(NumExisting, MaxPods)}
InitAdopt ==
    /\ env = {}
    /\ \E l \in Listings : \E oks \in Outcomes(Len(l)) :
         LET d == [i \in 1..Len(l) |->
                     [id |-> ListedId(i), name |-> l[i].name,
                      templateId |-> l[i].templateId,
                      networkVolumeId |-> l[i].networkVolumeId,
                      imageName |-> l[i].imageName]]
             ids == check_existing_pods(d, oks, 1)
             n == Len(ids)
         IN  /\ data = d
             /\ made = n
             /\ pods = [i \in 1..n |-> i]
             /\ pod = [p \in PodIds |-> NewPod(IF p <= n THEN ids[p] ELSE NoId)]
             /\ thr = [p \in PodIds |->
                         IF p <= n THEN NewThreads(ids[p])
                         ELSE [s \in Slots |-> NoThread]]
             /\ prov = [q \in 1..ListedId(NumExisting) |->
                          IF q \in {d[i].id : i \in 1..Len(d)}
                          THEN "running" ELSE "absent"]
    /\ queued = <<>>
    /\ processing = {}
    /\ completed = [k \in PromptIds |-> None]
    /\ history = <<>>
    /\ stopped = FALSE
    /\ cpc = "check"
    /\ dleft = 0
    /\ rpc = "run"
    /\ task = [k \in PromptIds |-> [pc |-> "none", pod |-> NoId, res |-> None]]
    /\ caller = [k \in PromptIds |-> [pc |-> "idle", start |-> 0, ret |-> None]]
    /\ spc = "idle"
    /\ sidx = 0
    /\ spod = NoId
    /\ now = StartTime
    /\ creates = [p \in PodIds |-> 0]
    /\ drv = NoDriver
    /\ over = 0
NextAdopt ==
    ThreadStep \/ ControlStep \/ PromptStep({1}) \/ ClearPrompts \/ Tick
SpecAdopt == InitAdopt /\ [][NextAdopt]_vars

\* Startup with MaxPods adopted pods, all running at the provider, whose
\* stop, start, delete and GET calls may fail; one caller enqueues a prompt;
\* the initializers get as far as their polls.
InitScale == InitWith(MaxPods, 0, {"running"}, {"call_fails"})
NextScale ==
    \/ \E p \in PodIds : \E s \in Slots : InitPoll(p, s)
    \/ ControlStep
    \/ Enqueue(1)
SpecScale == InitScale /\ [][NextScale]_vars

\* PodManager.stop() called on a manager that never gets a prompt, with a
\* provider whose create call may fail and whose other calls all succeed.
\* Without prompts the dispatch loop has no iteration.
InitHalt == \E n \in 0..1 : InitWith(n, 0, {"running", "exited"}, {"create_fails"})
NextHalt ==
    ThreadStep \/ CtlCheck \/ CtlFill \/ CtlScale \/ CtlReap \/ StopStep \/ Tick
SpecHalt == InitHalt /\ [][NextHalt]_vars

\* One Pod driven directly, as in SpecFaulty, its caller's calls failing too.
NextCall == ThreadStep \/ DriverStop(1) \/ DriverResume(1) \/ DriverFailedCall(1)
SpecCall == InitFaulty /\ [][NextCall]_vars

\* ------------------------------------------------------------------ claims
\* A _process_request thread that has been started and has not finished.
TaskLive(k) == task[k].pc \in {"start", "waiting", "ready", "posting", "popped"}
InPods(p) == p \in SeqToSet(pods)

\* C1: at any time at most one dispatch task (a started, unfinished
\* _process_request thread) exists for a given pod.
C1_OneTaskPerPod ==
    \A p \in PodIds :
        Cardinality({k \in PromptIds : TaskLive(k) /\ task[k].pod = p}) <= 1

\* C2: from its registration by queue_prompt until its caller consumes the
\* result, a prompt id is in exactly one of queued, processing, completed.
C2_ExactlyOneMap ==
    \A k \in PromptIds :
        caller[k].pc = "waiting" =>
            B2N(k \in SeqToSet(queued)) + B2N(k \in processing)
                + B2N(completed[k] # None) = 1

\* C3: once a pod's state is Terminated it never takes another state.
C3_TerminatedIsTerminal ==
    [][\A p \in PodIds :
          pod[p].state = Terminated => pod'[p].state = Terminated]_vars

\* C4: once PodManager.stop() has returned and the control loop has exited,
\* every pod in the manager's pod list has had a successful destroy call.
C4_StopDestroysAll ==
    (spc = "returned" /\ cpc = "exited") =>
        \A p \in PodIds :
            InPods(p) => pod[p].pod_id # NoId /\ prov[pod[p].pod_id] = "deleted"

\* C5: when no pod ever reaches Free (no pod server ever reports ready),
\* queue_prompt returns the error "request timeout.".
C5_TimeoutWhenNeverFree ==
    \A k \in PromptIds :
        ("never_ready" \in env /\ caller[k].pc = "done") =>
            caller[k].ret = RequestTimeout

\* C6: the result queue_prompt returns is never the error produced because
\* the assigned pod was Terminated or Stopped ("Pod is not working.").
C6_PodFatalNotSurfaced ==
    \A k \in PromptIds : caller[k].ret # NotWorking

\* C7: a pod whose state is Starting, Free or Processing has a non-null
\* pod_info.
C7_InfoWhenServing ==
    \A p \in 1..made :
        pod[p].state \in {Starting, Free, Processing} => pod[p].pod_info # None

\* C8: given a provider that answers every request, every pod that reaches
\* Terminated is eventually removed from the manager's pod list by the reap.
C8_TerminatedEventuallyReaped ==
    \A p \in PodIds :
        (InPods(p) /\ pod[p].state = Terminated) ~> ~InPods(p)

\* C9: the number of pods neither Stopped nor Terminated never stays above
\* POD_MAX_NUM for more than one control-loop tick.
C9_AboveAtMostOneTick == over <= 1

\* C10: after a successful stop() and then a successful resume() of a pod,
\* once its initializers have run to their end the pod has been Free, has
\* its pod_id unchanged and no create call was made.
C10_ResumeBackToFree ==
    (drv.pc = "resumed" /\ \A s \in Slots : thr[1][s].pc = "done") =>
        /\ drv.free
        /\ pod[1].pod_id = drv.pod_id
        /\ creates[1] = drv.creates

\* C11: destroy() is idempotent: when PodManager.stop is about to call
\* destroy() on a pod whose provider pod an earlier destroy() has deleted,
\* the call returns success.
C11_DestroyIdempotent ==
    (spc = "destroying" /\ pod[spod].pod_id # NoId
        /\ prov[pod[spod].pod_id] = "deleted") =>
        PodDestroyOk(World(pod, thr, prov), spod, TRUE)

\* The retry budget of the phase an initializer is in.
Budget(pc) ==
    CASE pc = "create" -> POD_CREATE_RETRY_MAX
      [] pc \in {"poll", "rpoll"} -> POD_START_RETRY_MAX
      [] pc = "check" -> POD_RUN_SERVER_RETRY_MAX
      [] OTHER -> 0

C13_DispatchOldestFirst ==
    [][\A k \in PromptIds :
          (task[k].pc = "none" /\ task'[k].pc = "start") =>
              /\ k \in SeqToSet(queued)
              /\ \A j \in SeqToSet(queued) : k <= j
              /\ SeqToSet(queued') = SeqToSet(queued) \ {k}]_vars

C13_Witness ==
    /\ task[1].pc = "start" /\ task[2].pc = "none"
    /\ queued = <<2>>

\* C14: when Pod.queue returns (TaskWait's and TaskPost's exits: success,
\* inference error, wait timeout, pod not working), the pod's is_working is
\* false and its state is Free, Terminated or Stopped.
C14_QueueExitLeavesFree ==
    [][\A k \in PromptIds :
          (/\ task[k].pc \in {"waiting", "posting"}
           /\ task'[k].pc \in {"popped", "done"}) =>
              /\ ~pod'[task[k].pod].is_working
              /\ pod'[task[k].pod].state \in {Free, Terminated, Stopped}]_vars

\* C15: in every reachable state a pod with is_working = true has state
\* Processing or Free.
C15_WorkingIsProcessingOrFree ==
    \A p \in PodIds : pod[p].is_working => pod[p].state \in {Processing, Free}

\* C18: the scale-down step never stops a pod to which a prompt has been
\* handed and whose dispatch task has not finished.
C18_ScaleDownSparesLeasedPods ==
    [][(cpc = "dispatch" /\ cpc' = "reap") =>
          \A p \in PodIds :
              (pod[p].state # Stopped /\ pod'[p].state = Stopped) =>
                  ~\E k \in PromptIds : TaskLive(k) /\ task[k].pod = p]_vars

\* C19: at most one initializer is running for a pod at any time.
C19_OneInitializerPerPod ==
    \A p \in PodIds : Cardinality({s \in Slots : thr[p][s].pc # "done"}) <= 1

\* C20: every change of a pod's state is one of the transitions of the state
\* diagram: Creating to Starting, Starting to Free, Free to Processing,
\* Processing to Free, Free to Stopped, Stopped to Creating, and Creating,
\* Starting or Stopped to Terminated.
C20_OnlyDiagramTransitions ==
    [][LET Diagram ==
             {<<Creating, Starting>>, <<Starting, Free>>, <<Free, Processing>>,
              <<Processing, Free>>, <<Free, Stopped>>, <<Stopped, Creating>>,
              <<Creating, Terminated>>, <<Starting, Terminated>>,
              <<Stopped, Terminated>>}
       IN  \A p \in PodIds :
             (p <= made /\ pod'[p].state # pod[p].state) =>
                 <<pod[p].state, pod'[p].state>> \in Diagram]_vars

\* C17: the pods adopted at startup are exactly the listed pods whose name
\* starts with pre_name and whose templateId, networkVolumeId and imageName
\* equal the manager's, in the listing's order; an adopted pod has the
\* provider's pod_id at all times and no initializer of it is ever in, or
\* has ever completed, the create call; every other Pod object has a pod_id
\* that is not a listed one.
C17_AdoptsExactlyMatching ==
    LET Matches(e) ==
            /\ e.name # NoName
            /\ StartsWith(e.name, pre_name)
            /\ e.templateId = template_id
            /\ e.networkVolumeId = volume_id
            /\ e.imageName = image_name
        M == SelectSeq(data, Matches)
    IN  /\ \A i \in 1..Len(M) :
              /\ i <= made
              /\ pod[i].pod_id = M[i].id
              /\ creates[i] = 0
              /\ \A s \in Slots : thr[i][s].pc # "create"
        /\ \A p \in PodIds :
              p > Len(M) => pod[p].pod_id \notin {data[i].id : i \in 1..Len(data)}

C17_Witness ==
    /\ Len(data) = 2
    /\ data[1].imageName # image_name
    /\ pod[1].pod_id = data[2].id
    /\ pod[1].state = Free
    /\ caller[1].ret = Success

\* C16: with no prompt arriving and a provider and pod servers that answer
\* every call, a pod the scale-down has stopped is never terminated and its
\* provider pod is never deleted.
C16_SurplusPodsStayStopped ==
    [][(env = {} /\ \A k \in PromptIds : caller[k].pc = "idle") =>
          \A p \in PodIds :
              (p <= made /\ pod[p].state = Stopped) =>
                  /\ pod'[p].state # Terminated
                  /\ prov'[pod[p].pod_id] # "deleted"]_vars

\* C21: in one control-loop tick the autoscale step stops at most active - N
\* pods when active > N and resumes at most N - active pods when active < N,
\* N being the target and active the count the step computed.
C21_ScaleStepBounded ==
    [][(cpc = "dispatch" /\ cpc' = "reap") =>
          LET N == calc_num_pods(history')
              active == Active(pod, pods)
              stops == Cardinality({p \in SeqToSet(pods) :
                          pod[p].state # Stopped /\ pod'[p].state = Stopped})
              resumes == Cardinality({p \in SeqToSet(pods) :
                            pod[p].state = Stopped /\ pod'[p].state = Creating})
          IN  /\ stops <= (IF active > N THEN active - N ELSE 0)
              /\ resumes <= (IF active < N THEN N - active ELSE 0)]_vars

\* C22: a trim step marks only the excess: the pods it marks Terminated are
\* at most as many as the pods of the list not already Terminated exceed
\* POD_MAX_NUM, and none of them is Processing or has is_working set.
C22_TrimOnlyExcess ==
    [][(cpc = "fill" /\ cpc' = "dispatch") =>
          LET live == Cardinality({i \in 1..Len(pods) :
                          pod[pods[i]].state # Terminated})
              marked == {p \in SeqToSet(pods) :
                          pod[p].state # Terminated /\ pod'[p].state = Terminated}
          IN  /\ Cardinality(marked)
                    <= (IF live > POD_MAX_NUM THEN live - POD_MAX_NUM ELSE 0)
              /\ \A p \in marked :
                    pod[p].state # Processing /\ ~pod[p].is_working]_vars

\* C23: PodManager.stop() is never left retrying destroy() on a pod for
\* which no destroy() can ever succeed: a pod without a pod_id whose
\* initializers have all ended, or a pod the provider has already deleted.
C23_StopCanReturn ==
    spc = "destroying" =>
        /\ pod[spod].pod_id = NoId => \E s \in Slots : thr[spod][s].pc # "done"
        /\ pod[spod].pod_id # NoId => prov[pod[spod].pod_id] # "deleted"

\* C24: while the manager is not stopped, a result left in completed after
\* its caller has returned (timed out) still has the expiry reaper running
\* to remove it.
C24_ExpiredEntriesReaped ==
    \A k \in PromptIds :
        (~stopped /\ caller[k].pc = "done" /\ completed[k] # None) => rpc = "run"

C26_FailedCallChangesNothing ==
    [][DriverFailedCall(1) =>
          /\ pod'[1] = pod[1]
          /\ thr'[1] = thr[1]
          /\ prov' = prov]_vars

C26_Witness ==
    /\ drv.pc = "failed"
    /\ pod[1].pod_id # NoId /\ prov[pod[1].pod_id] = "running"
    /\ pod[1].state = Starting
    /\ \E s \in Slots : thr[1][s].pc = "check"

\* C27: a prompt the dispatcher has popped is never in queued again, keeps
\* the pod it was handed to, and its dispatch task only moves forward
\* (started, waiting, ready, posted once, result stored, ended): the prompt
\* is never dispatched or submitted a second time.
C27_DispatchedOnce ==
    [][LET Rank(pc) ==
             CASE pc = "none" -> 0 [] pc = "start" -> 1 [] pc = "waiting" -> 2
               [] pc = "ready" -> 3 [] pc = "posting" -> 4
               [] pc = "popped" -> 5 [] OTHER -> 6
       IN  \A k \in PromptIds :
             /\ Rank(task'[k].pc) >= Rank(task[k].pc)
             /\ task[k].pc # "none" =>
                   /\ k \notin SeqToSet(queued')
                   /\ task'[k].pc # "start" \/ task[k].pc = "start"
                   /\ TaskLive(k) /\ task'[k].pc # "done" =>
                         task'[k].pod = task[k].pod]_vars

C27_Witness ==
    /\ caller[1].ret = RequestTimeout
    /\ task[1].pc = "done"
    /\ completed[1] # None
    /\ queued = <<>>

====
